---- MODULE Spec2Model ----
(***************************************************************************)
(* jsdoc-render-md: the renderer of a jsdoc section list into Markdown.    *)
(*                                                                         *)
(* The program is a set of pure, synchronous functions.  The model keeps   *)
(* the arguments and the return value of the last call in the state, and   *)
(* has one action per function that is called: the action draws the        *)
(* arguments from bounded sets and applies the function as the code        *)
(* computes it.                                                            *)
(*                                                                         *)
(* JavaScript values.  Text is a TLA+ string.  An object is a record that  *)
(* holds exactly the fields that are present.  Where the code tests the    *)
(* run-time type of a value (renderAtom), a string is wrapped as           *)
(* [string |-> s], an array as [array |-> seq] and null/undefined as       *)
(* [null |-> TRUE]; any other record is an object.  A function's result is *)
(* a string, or one of two reserved strings: undefined (the function       *)
(* returned nothing) and TypeError (it threw while reading a property of   *)
(* undefined).                                                             *)
(***************************************************************************)
EXTENDS Integers, Sequences, FiniteSets, TLC

VARIABLES pc, op, input, options, output, history

vars == <<pc, op, input, options, output, history>>

(***************************************************************************)
(* Bounds of the model.                                                    *)
(***************************************************************************)
MaxSections == 2
MaxParams == 2
MaxReturns == 2
MaxCalls == 2

(***************************************************************************)
(* JavaScript values and coercions.                                        *)
(***************************************************************************)
undefined == "<js:undefined>"
TypeError == "<js:TypeError>"

EmptyObj == [f \in {} |-> TRUE]
Null == [null |-> TRUE]
Str(s) == [string |-> s]
Arr(items) == [array |-> items]

IsArray(v) == "array" \in DOMAIN v
IsString(v) == "string" \in DOMAIN v
IsNull(v) == "null" \in DOMAIN v

Has(obj, f) == f \in DOMAIN obj
\* obj.f of a string-valued field: undefined when the field is absent
Get(obj, f) == IF Has(obj, f) THEN obj[f] ELSE undefined
\* truthiness of a string-valued, of a boolean and of an object field
TruthyStr(obj, f) == Has(obj, f) /\ obj[f] # ""
TruthyBool(obj, f) == Has(obj, f) /\ obj[f] = TRUE
\* truthiness of a wrapped value
TruthyVal(v) == IF IsString(v) THEN v.string # "" ELSE ~IsNull(v)
\* obj.f of a field that holds a wrapped value or an object
GetVal(obj, f) == IF Has(obj, f) THEN obj[f] ELSE Null
\* obj.f of an array field, wrapped for renderAtom
GetArr(obj, f) == IF Has(obj, f) THEN Arr(obj[f]) ELSE Null

\* ToString in a template literal or a + concatenation
ToStr(v) == IF v = undefined THEN "undefined" ELSE v

RECURSIVE FlatCat(_)
FlatCat(parts) ==
  IF parts = <<>> THEN "" ELSE ToStr(Head(parts)) \o FlatCat(Tail(parts))

\* a template literal / a chain of +: the exception of a part propagates
Concat(parts) ==
  IF \E i \in 1..Len(parts) : parts[i] = TypeError THEN TypeError
  ELSE FlatCat(parts)

RECURSIVE FlatJoin(_, _)
FlatJoin(items, sep) ==
  IF items = <<>> THEN ""
  ELSE LET h == IF Head(items) = undefined THEN "" ELSE Head(items)
       IN IF Len(items) = 1 THEN h ELSE h \o sep \o FlatJoin(Tail(items), sep)

\* Array.prototype.join: undefined elements give the empty string; an
\* exception thrown while the array was built (map) propagates
Join(items, sep) ==
  IF \E i \in 1..Len(items) : items[i] = TypeError THEN TypeError
  ELSE FlatJoin(items, sep)

(***************************************************************************)
(* Text helpers.                                                           *)
(***************************************************************************)
CharAt(s, i) == SubSeq(s, i, i)

StartsAt(s, i, pat) ==
  /\ i >= 1
  /\ i + Len(pat) - 1 <= Len(s)
  /\ SubSeq(s, i, i + Len(pat) - 1) = pat

\* number of occurrences of pat in s
Count(s, pat) == Cardinality({i \in 1..Len(s) : StartsAt(s, i, pat)})

Contains(s, pat) == \E i \in 1..Len(s) : StartsAt(s, i, pat)

EndsWith(s, pat) == StartsAt(s, Len(s) - Len(pat) + 1, pat)

\* String.prototype.replace(/c/g, rep) for a one-character pattern c
RECURSIVE ReplaceChar(_, _, _)
ReplaceChar(s, c, rep) ==
  IF s = "" THEN ""
  ELSE (IF CharAt(s, 1) = c THEN rep ELSE CharAt(s, 1))
         \o ReplaceChar(SubSeq(s, 2, Len(s)), c, rep)

Upper == {"A", "B", "C", "D", "E", "F", "G", "H", "I", "J", "K", "L", "M",
          "N", "O", "P", "Q", "R", "S", "T", "U", "V", "W", "X", "Y", "Z"}
Lower == {"a", "b", "c", "d", "e", "f", "g", "h", "i", "j", "k", "l", "m",
          "n", "o", "p", "q", "r", "s", "t", "u", "v", "w", "x", "y", "z"}
Digit == {"0", "1", "2", "3", "4", "5", "6", "7", "8", "9"}

UpperSeq == <<"A", "B", "C", "D", "E", "F", "G", "H", "I", "J", "K", "L", "M",
              "N", "O", "P", "Q", "R", "S", "T", "U", "V", "W", "X", "Y", "Z">>
LowerSeq == <<"a", "b", "c", "d", "e", "f", "g", "h", "i", "j", "k", "l", "m",
              "n", "o", "p", "q", "r", "s", "t", "u", "v", "w", "x", "y", "z">>

\* String.prototype.toLowerCase, on one character
LowerChar(c) ==
  IF c \in Upper
  THEN LowerSeq[CHOOSE k \in 1..26 : UpperSeq[k] = c]
  ELSE c

RECURSIVE toLowerCase(_)
toLowerCase(s) ==
  IF s = "" THEN ""
  ELSE LowerChar(CharAt(s, 1)) \o toLowerCase(SubSeq(s, 2, Len(s)))

\* s.replace(/[^a-z0-9]/g, '')
RECURSIVE KeepLowerAlnum(_)
KeepLowerAlnum(s) ==
  IF s = "" THEN ""
  ELSE (IF CharAt(s, 1) \in Lower \cup Digit THEN CharAt(s, 1) ELSE "")
         \o KeepLowerAlnum(SubSeq(s, 2, Len(s)))

(***************************************************************************)
(* renderString: collapse Array.<T>, escape, link.                         *)
(***************************************************************************)
\* length of the longest run of characters other than '>' that starts at i
RECURSIVE RunNotGt(_, _)
RunNotGt(s, i) ==
  IF i > Len(s) \/ CharAt(s, i) = ">" THEN 0 ELSE 1 + RunNotGt(s, i + 1)

\* s.replace(/Array\.<([^>]+)>/g, '$1[]'), scanning from position i: the
\* greedy [^>]+ takes the whole run up to the first '>', and the scan goes
\* on after the match (replaced text is not scanned again)
RECURSIVE CollapseFrom(_, _)
CollapseFrom(s, i) ==
  IF i > Len(s) THEN ""
  ELSE LET n == RunNotGt(s, i + 7)
       IN IF StartsAt(s, i, "Array.<") /\ n >= 1 /\ i + 7 + n <= Len(s)
          THEN SubSeq(s, i + 7, i + 6 + n) \o "[]" \o CollapseFrom(s, i + 8 + n)
          ELSE CharAt(s, i) \o CollapseFrom(s, i + 1)

CollapseArray(s) == CollapseFrom(s, 1)

EscapeHtml(s) ==
  ReplaceChar(ReplaceChar(ReplaceChar(s, "&", "&amp;"), "<", "&lt;"), ">", "&gt;")

\* length of the match of /([A-Z][a-z0-9]*)+/ at i, where s[i] is upper case:
\* the run of letters and digits from i
RECURSIVE RunAlnum(_, _)
RunAlnum(s, i) ==
  IF i > Len(s) \/ CharAt(s, i) \notin Upper \cup Lower \cup Digit THEN 0
  ELSE 1 + RunAlnum(s, i + 1)

LinkOf(m) ==
  "<a href='#" \o KeepLowerAlnum(toLowerCase(m)) \o "'>" \o m \o "</a>"

\* str.replace(/([A-Z][a-z0-9]*)+/g, s => <a href=#...>s</a>)
RECURSIVE LinkFrom(_, _)
LinkFrom(s, i) ==
  IF i > Len(s) THEN ""
  ELSE IF CharAt(s, i) \in Upper
       THEN LET n == RunAlnum(s, i)
            IN LinkOf(SubSeq(s, i, i + n - 1)) \o LinkFrom(s, i + n)
       ELSE CharAt(s, i) \o LinkFrom(s, i + 1)

\* options && options.html
HtmlOn(opts) == TruthyBool(opts, "html")

renderString(atom, opts) ==
  LET str == EscapeHtml(CollapseArray(atom))
  IN IF HtmlOn(opts) THEN LinkFrom(str, 1) ELSE str

(***************************************************************************)
(* Markup constants.                                                       *)
(***************************************************************************)
ARROW == " → "
\* the source's glyph is U+1F538, outside the characters a TLA+ string holds
PRIVATE == "[U+1F538]"
\* a TLA+ string holds no U+0060; U+00B4 stands for the backtick
BACKTICK == "´"
FENCE == BACKTICK \o BACKTICK \o BACKTICK
OPTIONAL == ", _optional_"
OPTIONAL_SMALL == "<sub title=\"Optional\">?</sub>"

(***************************************************************************)
(* renderAtom: a signature, a parameter, a type annotation.                *)
(***************************************************************************)
KindIs(atom, k) == Has(atom, "kind") /\ atom.kind = k

\* mutant: no parameter is taken for a deep one
IsShallowAlways(p) == TRUE

\* p.name.indexOf('.') === -1
IsShallow(p) == ~Contains(p.name, ".")

\* mutant: an atom that carries names is never taken for a callable
IsCallableUnlessUnion(atom) ==
  /\ KindIs(atom, "function") \/ (KindIs(atom, "typedef") /\ Has(atom, "params"))
  /\ ~Has(atom, "names")

\* the test that sends an atom to the callable case
IsCallable(atom) ==
  KindIs(atom, "function") \/ (KindIs(atom, "typedef") /\ Has(atom, "params"))

\* atom.params.filter(p => p.name.indexOf('.') === -1) throws when params is
\* undefined, and when a parameter it visits has no name
FilterThrows(atom) ==
  \/ ~Has(atom, "params")
  \/ \E i \in 1..Len(atom.params) : ~Has(atom.params[i], "name")

RECURSIVE renderAtom(_, _)

\* mutant: the signature goes on with the arrow and the return type
CallableSignatureWithArrow(atom) ==
  IF FilterThrows(atom) THEN TypeError
  ELSE LET params_ == SelectSeq(atom.params, IsShallow)
           left == Concat(<<"<code>",
                            Concat(<<Get(atom, "name"), "(",
                                     renderAtom(Arr(params_), Null), ")">>),
                            "</code>">>)
           right == renderAtom(GetArr(atom, "returns"), Null)
       IN Concat(<<left, ARROW, "<em>",
                   IF right = undefined \/ right = "" THEN "void" ELSE right,
                   "</em>">>)

\* the callable case: the deep parameters are discarded, the others are
\* rendered without the caller's options
CallableSignature(atom) ==
  IF FilterThrows(atom) THEN TypeError
  ELSE LET params_ == SelectSeq(atom.params, IsShallow)
           left == Concat(<<"<code>",
                            Concat(<<Get(atom, "name"), "(",
                                     renderAtom(Arr(params_), Null), ")">>),
                            "</code>">>)
           signature == left
       IN signature

renderAtom(atom, opts) ==
  IF IsArray(atom)
  THEN Join([i \in 1..Len(atom.array) |-> renderAtom(atom.array[i], opts)], ", ")
  ELSE IF IsString(atom) THEN renderString(atom.string, opts)
  ELSE IF IsNull(atom) THEN undefined
  ELSE IF IsCallable(atom) THEN CallableSignature(atom)
  ELSE IF KindIs(atom, "typedef") /\ Has(atom, "properties")
  THEN Concat(<<"<code>",
                Concat(<<"{ ", renderAtom(Arr(atom.properties), opts), " }">>),
                "</code>">>)
  ELSE IF Has(atom, "names")
  THEN Join([i \in 1..Len(atom.names) |-> renderAtom(Str(atom.names[i]), opts)],
            " | ")
  ELSE IF TruthyStr(atom, "name") /\ TruthyVal(GetVal(atom, "type"))
  THEN LET html == Concat(<<"<b title='", renderAtom(atom.type, opts), "'>",
                            atom.name, "</b>">>)
           html2 == IF TruthyBool(atom, "optional")
                    THEN Concat(<<html, OPTIONAL_SMALL>>) ELSE html
       IN IF TruthyBool(atom, "variable") THEN Concat(<<"...", html2>>) ELSE html2
  ELSE IF TruthyStr(atom, "name") THEN atom.name
  ELSE IF TruthyVal(GetVal(atom, "type")) THEN renderAtom(atom.type, opts)
  ELSE undefined

(***************************************************************************)
(* renderParams / renderParam: the parameter table.                        *)
(***************************************************************************)
renderParam(param) ==
  LET c1 == Concat(<<BACKTICK, Get(param, "name"), BACKTICK>>)
      c2 == IF TruthyVal(GetVal(param, "type"))
            THEN Concat(<<renderAtom(param.type, Null),
                          IF TruthyBool(param, "optional") THEN OPTIONAL ELSE "">>)
            ELSE ""
      c3 == IF TruthyStr(param, "description") THEN param.description ELSE ""
  IN Concat(<<"| ", Join(<<c1, c2, c3>>, " | "), " |">>)

renderParams(params) ==
  Concat(<<"| Param | Type | Description |\n",
           "| --- | --- | --- |\n",
           Join([i \in 1..Len(params) |-> renderParam(params[i])], "\n")>>)

\* a || 'void'
OrVoid(v) == IF v = undefined \/ v = "" THEN "void" ELSE v

renderReturnSignature(atom) ==
  LET type == OrVoid(renderAtom(GetArr(atom, "returns"), [html |-> TRUE]))
      signature == Concat(<<"<code>", type, "</code>">>)
      signature2 == IF KindIs(atom, "typedef")
                    THEN Concat(<<signature, " *(callback)*">>) ELSE signature
  IN Concat(<<"> Returns ", signature2>>)

(***************************************************************************)
(* renderReturns / dotify / isSimpleReturn.                                *)
(***************************************************************************)
\* mutant: a full stop is appended whatever the text ends in
dotifyAlways(str) == str \o "."

\* mutant: a return with a type and no description is given a sentence
renderReturnsWithFallback(returns) ==
  [i \in 1..Len(returns) |->
     IF TruthyStr(returns[i], "description")
     THEN "Returns " \o (IF EndsWith(returns[i].description, ".")
                         THEN returns[i].description
                         ELSE returns[i].description \o ".")
     ELSE IF TruthyVal(GetVal(returns[i], "type")) THEN "Returns a value."
     ELSE undefined]

dotify(str) == IF EndsWith(str, ".") THEN str ELSE str \o "."

renderReturns(returns) ==
  [i \in 1..Len(returns) |->
     IF TruthyStr(returns[i], "description")
     THEN "Returns " \o dotify(returns[i].description)
     ELSE undefined]

\* the argument is section.returns, present (an array is always truthy)
isSimpleReturn(returns) ==
  /\ Len(returns) >= 1
  /\ \/ ~TruthyStr(returns[1], "description")
     \/ ~EndsWith(returns[1].description, ".")

(***************************************************************************)
(* renderBody / renderSection / render.                                    *)
(***************************************************************************)
NonEmptyArr(obj, f) == Has(obj, f) /\ Len(obj[f]) # 0

\* the <details> block that opens the body, as a list of 0 or 1 blocks
DetailsBlocks(section) ==
  IF NonEmptyArr(section, "params")
  THEN <<Concat(<<"<details>\n",
                  Concat(<<"<summary>", renderAtom(section, Null), "</summary>\n\n">>),
                  renderParams(section.params), "\n\n",
                  renderReturnSignature(section), "\n",
                  "</details>">>)>>
  ELSE IF NonEmptyArr(section, "properties")
  THEN <<Concat(<<"<details>\n",
                  Concat(<<"<summary>", renderAtom(section, Null), "</summary>\n\n">>),
                  renderParams(section.properties), "\n",
                  "</details>">>)>>
  ELSE IF ~(KindIs(section, "class") \/ KindIs(section, "module"))
  THEN <<Concat(<<"<details>\n",
                  Concat(<<"<summary>", renderAtom(section, Null), "</summary>\n">>),
                  "</details>">>)>>
  ELSE <<>>

DescriptionBlocks(section) ==
  IF TruthyStr(section, "description") THEN <<section.description>> ELSE <<>>

\* mutant: the fragments are always blocks of their own
WithReturnsAsBlocks(md, section) ==
  IF ~Has(section, "returns") THEN md ELSE md \o renderReturns(section.returns)

\* md after the returns step; an array added to a string is joined with ','
WithReturns(md, section) ==
  IF ~Has(section, "returns") THEN md
  ELSE LET returns == renderReturns(section.returns)
       IN IF isSimpleReturn(section.returns) /\ Len(md) # 0
          THEN [md EXCEPT ![Len(md)] = Concat(<<md[Len(md)], " ", Join(returns, ",")>>)]
          ELSE md \o returns

ExampleBlocks(section) ==
  IF Has(section, "examples")
  THEN [i \in 1..Len(section.examples) |->
          FENCE \o "js\n" \o section.examples[i] \o "\n" \o FENCE]
  ELSE <<>>

\* mutant: the description comes before the signature block
renderBodyDescriptionFirst(section) ==
  LET md1 == DescriptionBlocks(section) \o DetailsBlocks(section)
      md2 == WithReturns(md1, section)
      md3 == md2 \o ExampleBlocks(section)
  IN Join(md3, "\n\n")

renderBody(section) ==
  LET md1 == DetailsBlocks(section) \o DescriptionBlocks(section)
      md2 == WithReturns(md1, section)
      md3 == md2 \o ExampleBlocks(section)
  IN Join(md3, "\n\n")

renderAccess(section) ==
  IF TruthyStr(section, "access") /\ section.access # "public"
  THEN Concat(<<"<span title='", section.access, "'>", PRIVATE, "</span>">>)
  ELSE undefined

renderSection(section, opts) ==
  LET prefix == IF TruthyStr(opts, "prefix") THEN opts.prefix ELSE ""
      access == renderAccess(section)
      id == Concat(<<"<a id='", Get(section, "name"), "'></a>">>)
      fn == IF KindIs(section, "function") THEN "()" ELSE ""
      prelude == Concat(<<prefix, id, Get(section, "name"), fn,
                          IF access # undefined THEN access ELSE "">>)
  IN Join(<<prelude, renderBody(section)>>, "\n\n")

\* mutant: every section is given the inner heading level
SectionOptionsInner(section) == [prefix |-> "### "]

\* the options render passes to renderSection for a section's kind
SectionOptions(section) ==
  IF KindIs(section, "module") THEN [prefix |-> "## "]
  ELSE IF KindIs(section, "class") \/ KindIs(section, "module") THEN [prefix |-> "## "]
  ELSE IF KindIs(section, "function") \/ KindIs(section, "member")
       THEN [prefix |-> "### "]
  ELSE [prefix |-> "### "]

\* mutant: the first filter forgets the packages
IsRenderableKeepsPackages(s) == ~TruthyBool(s, "undocumented")

\* data.filter(s => !s.undocumented && s.kind !== 'package')
IsRenderable(s) == ~TruthyBool(s, "undocumented") /\ ~KindIs(s, "package")

\* mutant: the second filter drops every non-public section
IsNotPrivateDropsProtected(s) == ~TruthyStr(s, "access") \/ s.access = "public"

\* data.filter(s => !s.access || s.access !== 'private')
IsNotPrivate(s) == ~TruthyStr(s, "access") \/ s.access # "private"

\* the second filter runs unless options.includePrivate is truthy
RemovePrivates(data, opts) ==
  IF ~TruthyBool(opts, "includePrivate") THEN SelectSeq(data, IsNotPrivate) ELSE data

\* mutant: the title is dropped when there is nothing to put under it
WithTitleUnlessEmpty(output0, opts) ==
  IF TruthyStr(opts, "title") /\ output0 # ""
  THEN Concat(<<"# ", opts.title, "\n\n", output0>>)
  ELSE output0

WithTitle(output0, opts) ==
  IF TruthyStr(opts, "title")
  THEN Concat(<<"# ", opts.title, "\n\n", output0>>)
  ELSE output0

\* mutant: the sections are joined by a line break, not by a blank line
renderJoinedByLineBreak(data, opts0) ==
  LET opts == IF IsNull(opts0) THEN EmptyObj ELSE opts0
      data2 == RemovePrivates(SelectSeq(data, IsRenderable), opts)
      output0 == Join([i \in 1..Len(data2) |->
                         renderSection(data2[i], SectionOptions(data2[i]))], "\n")
  IN WithTitle(output0, opts)

\* mutant: the first filter removes the sections from the caller's list
dataFilteredInPlace(data, opts0) == SelectSeq(data, IsRenderable)

\* the caller's list after a call: filter and map return new arrays and
\* render assigns them to its own parameter, so the list is what it was
dataAfterRender(data, opts0) == data

render(data, opts0) ==
  LET opts == IF IsNull(opts0) THEN EmptyObj ELSE opts0
      data1 == SelectSeq(data, IsRenderable)
      data2 == RemovePrivates(data1, opts)
      output0 == Join([i \in 1..Len(data2) |->
                         renderSection(data2[i], SectionOptions(data2[i]))], "\n\n")
  IN WithTitle(output0, opts)

(***************************************************************************)
(* The list mode (src/unnamed/part_002): a parameter is a bullet line.     *)
(***************************************************************************)
\* mutant: the name is never cut at its dots
splitWhole(s) == <<s>>

\* str.split('.')
RECURSIVE split(_)
split(s) ==
  IF ~Contains(s, ".") THEN <<s>>
  ELSE LET k == CHOOSE i \in 1..Len(s) :
                  /\ CharAt(s, i) = "."
                  /\ \A j \in 1..(i - 1) : CharAt(s, j) # "."
       IN <<SubSeq(s, 1, k - 1)>> \o split(SubSeq(s, k + 1, Len(s)))

\* Array(n).join('  '): n - 1 separators between n empty slots
RECURSIVE ArrayJoin(_)
ArrayJoin(n) == IF n <= 1 THEN "" ELSE "  " \o ArrayJoin(n - 1)

\* the string case of the list mode's renderAtom
renderStringList(atom) ==
  ReplaceChar(ReplaceChar(ReplaceChar(CollapseArray(atom), "*", "\\*"),
                          "<", "&lt;"), ">", "&gt;")

RECURSIVE renderAtomList(_)
renderAtomList(atom) ==
  IF IsArray(atom)
  THEN Join([i \in 1..Len(atom.array) |-> renderAtomList(atom.array[i])], ", ")
  ELSE IF IsString(atom) THEN renderStringList(atom.string)
  ELSE IF IsNull(atom) THEN undefined
  ELSE IF KindIs(atom, "function")
  THEN IF FilterThrows(atom) THEN TypeError
       ELSE LET params_ == SelectSeq(atom.params, IsShallow)
                left == Concat(<<BACKTICK,
                                 Concat(<<Get(atom, "name"), "(",
                                          renderAtomList(Arr(params_)), ")">>),
                                 BACKTICK>>)
                right == renderAtomList(GetArr(atom, "returns"))
            IN IF right # undefined /\ right # ""
               THEN Concat(<<left, ARROW, "*", right, "*">>)
               ELSE left
  ELSE IF Has(atom, "names")
  THEN Join([i \in 1..Len(atom.names) |-> renderAtomList(Str(atom.names[i]))],
            " | ")
  ELSE IF TruthyStr(atom, "name") THEN atom.name
  ELSE IF TruthyVal(GetVal(atom, "type")) THEN renderAtomList(atom.type)
  ELSE undefined

\* param.name.split throws when the parameter has no name
renderParamList(param) ==
  IF ~Has(param, "name") THEN TypeError
  ELSE LET names == split(param.name)
           bullet == <<ArrayJoin(Len(names)) \o "-",
                       BACKTICK \o names[Len(names)] \o BACKTICK>>
           type == IF TruthyVal(GetVal(param, "type"))
                   THEN <<Concat(<<"*(",
                                   IF TruthyBool(param, "optional") THEN "?" ELSE "",
                                   renderAtomList(param.type), ")*">>)>>
                   ELSE <<>>
           description == IF TruthyStr(param, "description")
                          THEN <<"&mdash;", param.description>>
                          ELSE <<>>
       IN Join(bullet \o type \o description, " ")

\* the list mode's renderReturns: description and type, description, type
renderReturnsList(returns) ==
  [i \in 1..Len(returns) |->
     IF TruthyStr(returns[i], "description") /\ TruthyVal(GetVal(returns[i], "type"))
     THEN Concat(<<"Returns ", dotify(returns[i].description), " *(",
                   renderAtomList(returns[i].type), ")*">>)
     ELSE IF TruthyStr(returns[i], "description")
     THEN "Returns " \o dotify(returns[i].description)
     ELSE IF TruthyVal(GetVal(returns[i], "type"))
     THEN Concat(<<"Returns a ", renderAtomList(returns[i].type), ".">>)
     ELSE undefined]

(***************************************************************************)
(* Inputs.                                                                 *)
(***************************************************************************)
NoOptions == Null
HtmlOptions == [html |-> TRUE]

RawStrings ==
  {"", "string", "Tree", "Array.<string>", "Array.<Tree>",
   "Array.<Array.<string>>", "Object.<string, number>", "a&b", "HashMap",
   "Array.<string>|Array.<number>", "function(Tree)", "x>y", "myTree2X"}

\* sequences over S of length at most n
SeqsUpTo(S, n) == UNION {[1..k -> S] : k \in 0..n}

\* obj with field f set to v
With(obj, f, v) == [g \in DOMAIN obj \cup {f} |-> IF g = f THEN v ELSE obj[g]]

TypeTree == [names |-> <<"Tree">>]
TypeNumber == [names |-> <<"number">>]
TypeObject == [names |-> <<"object">>]
TypeUnion == [names |-> <<"string", "number">>]
TypeArray == [names |-> <<"Array.<string>">>]

Types == {TypeTree, TypeNumber, TypeUnion, TypeArray, Str("string"), EmptyObj}

Params ==
  {[name |-> "data", type |-> TypeTree],
   [name |-> "options", type |-> TypeObject, optional |-> TRUE,
    description |-> "Options to be passed"],
   [name |-> "options.prefix", type |-> Str("string"), optional |-> TRUE,
    description |-> "The prefix"],
   [name |-> "key", type |-> TypeUnion, variable |-> TRUE],
   [name |-> "x", type |-> EmptyObj],
   [type |-> TypeNumber]}

ParamLists == SeqsUpTo(Params, MaxParams)

ReturnLists ==
  {<<[type |-> TypeNumber]>>, <<[type |-> TypeTree, description |-> "the tree"]>>}

\* a name and a kind, with or without params and returns
Callables ==
  LET base == {[name |-> "len", kind |-> k] : k \in {"function", "typedef", "member"}}
      withParams == base \cup {With(b, "params", ps) : b \in base, ps \in ParamLists}
  IN withParams \cup {With(b, "returns", r) : b \in withParams, r \in ReturnLists}

\* typedefs of an object
Typedefs ==
  LET props == <<[name |-> "size", type |-> TypeNumber], [name |-> "root"]>>
  IN {[name |-> "Tree", kind |-> "typedef", properties |-> props],
      [name |-> "Tree", kind |-> "typedef", properties |-> props, params |-> <<>>],
      [name |-> "Tree", kind |-> "member", properties |-> props]}

Atoms ==
  {Null, EmptyObj, [kind |-> "member"], [description |-> "text"], [name |-> ""]}
    \cup {Str(s) : s \in {"", "Tree", "Array.<string>"}}
    \cup Types \cup Params \cup {Arr(ps) : ps \in ParamLists}
    \cup {[type |-> ty] : ty \in Types}
    \cup {[names |-> <<"Tree">>, name |-> "t", type |-> TypeNumber],
          [names |-> <<"Tree">>, kind |-> "function", name |-> "f", params |-> <<>>]}
    \cup Callables \cup Typedefs

Marked(shape, mark) ==
  [f \in DOMAIN shape \cup DOMAIN mark |->
     IF f \in DOMAIN mark THEN mark[f] ELSE shape[f]]

\* the section of the example in the source's documentation of render
SectionLen ==
  [name |-> "len", kind |-> "function",
   description |-> "Returns the number of keys.",
   params |-> <<[name |-> "data", type |-> TypeTree]>>,
   returns |-> <<[type |-> TypeNumber]>>]
SectionTree == [name |-> "tree", kind |-> "module", description |-> "A tree module."]
SectionPkg == [name |-> "pkg", kind |-> "package", description |-> "The pkg files."]

\* sections with the marks render filters on
Sections ==
  {Marked(SectionLen, m) :
     m \in {EmptyObj, [access |-> "private"], [access |-> "protected"],
            [undocumented |-> TRUE]}}
    \cup {Marked(SectionTree, m) :
            m \in {EmptyObj, [access |-> "public"], [access |-> "private"],
                   [undocumented |-> FALSE]}}
    \cup {SectionPkg}
    \cup {[name |-> "run", kind |-> "function", description |-> "Runs it."]}

DataLists == SeqsUpTo(Sections, MaxSections)

\* one section of each kind and access, for the heading render gives it
HeadingSections ==
  LET kinds == {[name |-> "tree", kind |-> "module"],
                [name |-> "Tree", kind |-> "class", description |-> "A tree."],
                [name |-> "len", kind |-> "function", params |-> <<>>],
                [name |-> "size", kind |-> "member", description |-> "The size."],
                [name |-> "Opts", kind |-> "typedef"],
                [name |-> "MAX", kind |-> "constant"],
                [name |-> "misc"]}
  IN kinds \cup {With(s, "access", a) : s \in kinds,
                                        a \in {"public", "protected", "private"}}

RenderOptions ==
  {NoOptions, EmptyObj, [includePrivate |-> TRUE], [includePrivate |-> FALSE],
   [title |-> "API"], [title |-> "API", includePrivate |-> TRUE]}

\* the parameters one row or one bullet line is rendered of
RowParams ==
  Params \cup
    {[name |-> "options.style.color", type |-> Str("string"),
      description |-> "The colour"],
     [name |-> "a.b.c.d"],
     [name |-> "options.", optional |-> TRUE, type |-> TypeArray],
     [name |-> "cb", type |-> [kind |-> "function", name |-> "cb",
                               params |-> <<[name |-> "err"]>>,
                               returns |-> <<[type |-> TypeNumber]>>]],
     [name |-> "fn", type |-> [kind |-> "function", name |-> "fn"]],
     [name |-> "m", type |-> Str("Array.<*>")]}

\* the texts a sentence is made of
Sentences == {"", ".", "Hello", "Hi.", "the tree", "a tree..", "Done. ", "e.g"}

\* return descriptors: a type, a description, both, neither
ReturnDescriptors ==
  {[type |-> TypeNumber], [type |-> TypeTree, description |-> "the tree"],
   [description |-> "a Markdown block"], [description |-> "The size."],
   [type |-> TypeArray, description |-> "Hi."], [description |-> ""],
   [type |-> Str("Array.<*>")], EmptyObj}

ReturnSeqs == SeqsUpTo(ReturnDescriptors, MaxReturns)

\* the return descriptors of the sections renderBody is called on
BodyReturns ==
  SeqsUpTo({[type |-> TypeNumber], [description |-> "a Markdown block"],
            [description |-> "The size."], [description |-> ""]}, MaxReturns)

ExampleLists == {<<>>, <<"len(tree)">>, <<"get(t, 1)", "set(t, 1, 2)">>}

\* a section of each kind, with and without params and properties
BodyBases ==
  {[name |-> "len", kind |-> "function", params |-> <<[name |-> "data", type |-> TypeTree]>>],
   [name |-> "len", kind |-> "function", params |-> <<>>],
   [name |-> "Tree", kind |-> "class"],
   [name |-> "Tree", kind |-> "class", params |-> <<[name |-> "data", type |-> TypeTree]>>],
   [name |-> "tree", kind |-> "module"],
   [name |-> "tree", kind |-> "module", params |-> <<>>, properties |-> <<>>],
   [name |-> "size", kind |-> "member"],
   [name |-> "Opts", kind |-> "typedef",
    properties |-> <<[name |-> "size", type |-> TypeNumber]>>]}

\* the bases, each with or without a description, returns and examples
ReturnSections ==
  LET described == BodyBases
                     \cup {With(b, "description", "Counts the keys.") : b \in BodyBases}
      returning == described
                     \cup {With(b, "returns", r) : b \in described, r \in BodyReturns}
  IN returning \cup {With(b, "examples", e) : b \in returning, e \in ExampleLists}

\* the sections renderBody is called on alone
BodySections ==
  Callables \cup Typedefs \cup ReturnSections
    \cup {[kind |-> "member", description |-> "No name."],
          [name |-> "Tree", kind |-> "class"],
          SectionLen, SectionTree}

(***************************************************************************)
(* The state machine.  Init holds a call that is about to be made: the     *)
(* function (op) and its arguments (input, options).  The action of that   *)
(* function runs it to its end and stores what it returned or threw.       *)
(***************************************************************************)
Init ==
  /\ pc = "call"
  /\ output = undefined
  /\ history = <<>>
  /\ \/ op = "render" /\ input \in DataLists /\ options \in RenderOptions
     \/ op = "render" /\ input \in {<<s>> : s \in HeadingSections}
          /\ options \in {NoOptions, [includePrivate |-> TRUE]}
     \/ op = "renderBody" /\ input \in BodySections /\ options = NoOptions
     \/ op = "renderParams" /\ input \in ParamLists /\ options = NoOptions
     \/ op \in {"renderParam", "renderParamList"} /\ input \in RowParams
          /\ options = NoOptions
     \/ op = "dotify" /\ input \in Sentences /\ options = NoOptions
     \/ op \in {"renderReturns", "renderReturnsList"} /\ input \in ReturnSeqs
          /\ options = NoOptions
     \/ op = "renderAtom" /\ input \in Atoms /\ options \in {NoOptions, HtmlOptions}
     \/ op = "renderString" /\ input \in RawStrings
          /\ options \in {NoOptions, EmptyObj, HtmlOptions}

Return(value) ==
  /\ pc' = "done"
  /\ output' = value
  /\ UNCHANGED <<op, input, options, history>>

\* render is called, a first time or again, with the list and the options
\* the caller holds; history keeps what each call returned
CallRender ==
  /\ op = "render" /\ Len(history) < MaxCalls
  /\ pc' = "done"
  /\ output' = render(input, options)
  /\ history' = Append(history, output')
  /\ input' = dataAfterRender(input, options)
  /\ options' = options
  /\ op' = op

CallRenderBody ==
  /\ pc = "call" /\ op = "renderBody"
  /\ Return(renderBody(input))

CallRenderParams ==
  /\ pc = "call" /\ op = "renderParams"
  /\ Return(renderParams(input))

CallRenderParam ==
  /\ pc = "call" /\ op = "renderParam"
  /\ Return(renderParam(input))

CallRenderParamList ==
  /\ pc = "call" /\ op = "renderParamList"
  /\ Return(renderParamList(input))

CallDotify ==
  /\ pc = "call" /\ op = "dotify"
  /\ Return(dotify(input))

\* renderReturns returns the array of the fragments
CallRenderReturns ==
  /\ pc = "call" /\ op = "renderReturns"
  /\ Return(renderReturns(input))

CallRenderReturnsList ==
  /\ pc = "call" /\ op = "renderReturnsList"
  /\ Return(renderReturnsList(input))

CallRenderAtom ==
  /\ pc = "call" /\ op = "renderAtom"
  /\ Return(renderAtom(input, options))

CallRenderString ==
  /\ pc = "call" /\ op = "renderString"
  /\ Return(renderString(input, options))

Next ==
  \/ CallRender
  \/ CallRenderBody
  \/ CallRenderParams
  \/ CallRenderParam
  \/ CallRenderParamList
  \/ CallDotify
  \/ CallRenderReturns
  \/ CallRenderReturnsList
  \/ CallRenderAtom
  \/ CallRenderString

Spec == Init /\ [][Next]_vars

(***************************************************************************)
(* Properties of render.                                                   *)
(***************************************************************************)
Done(f) == pc = "done" /\ op = f

\* the call is of a function whose result is one text, not an array
ReturnsText == op \notin {"renderReturns", "renderReturnsList"}

\* render returned a document (it did not throw)
Rendered == Done("render") /\ output # TypeError

IncludePrivate == Has(options, "includePrivate") /\ options.includePrivate = TRUE
TitleSet == Has(options, "title") /\ options.title # ""

Undocumented(s) == Has(s, "undocumented") /\ s.undocumented = TRUE
IsPackage(s) == Has(s, "kind") /\ s.kind = "package"
AccessIs(s, a) == Has(s, "access") /\ s.access = a

\* the indices of the sections of the input for which P holds
Where(P(_)) == {i \in 1..Len(input) : P(input[i])}

Unrenderable(s) == Undocumented(s) \/ IsPackage(s)
Survives(s) == ~Unrenderable(s) /\ (IncludePrivate \/ ~AccessIs(s, "private"))

Anchor(n) == "<a id='" \o n \o "'></a>"
Badge(a) == "<span title='" \o a \o "'>"

NameSurvives(n) == \E i \in Where(Survives) : input[i].name = n

\* C1: whatever the options (includePrivate, title), the document render
\* returns holds, for every name, exactly one heading per input section of
\* that name that is neither undocumented nor a package (and passes the
\* private filter); a section with undocumented = TRUE or kind = 'package'
\* leaves no heading, and, unless a surviving section bears the same name,
\* no trace of its name or description.  When render throws instead, it
\* returns no text at all.
C1_FilterAbsolute ==
  Rendered =>
    /\ \A i \in 1..Len(input) :
         Count(output, Anchor(input[i].name))
           = Cardinality({j \in Where(Survives) : input[j].name = input[i].name})
    /\ Count(output, "<a id='") = Cardinality(Where(Survives))
    /\ \A i \in Where(Unrenderable) :
         ~NameSurvives(input[i].name) =>
           /\ ~Contains(output, input[i].name)
           /\ Has(input[i], "description") => ~Contains(output, input[i].description)

C1_Witness ==
  /\ Rendered /\ IncludePrivate /\ TitleSet
  /\ \E i, j \in 1..Len(input) :
       /\ Undocumented(input[i]) /\ ~IsPackage(input[i])
       /\ Survives(input[j])
       /\ input[i].name # input[j].name
       /\ Contains(output, Anchor(input[j].name))

\* C2: a section with access = 'private' is rendered only when
\* options.includePrivate is true (it is dropped when options is absent or
\* includePrivate is false or absent); every section that is neither
\* undocumented nor a package and whose access is 'protected', 'public' or
\* absent is rendered whatever the options.  Rendered private and protected
\* sections are counted by the access badge of their heading, the others by
\* the headings that bear no badge.
C2_PrivateFilter ==
  Rendered =>
    LET kept(P(_)) == Cardinality({i \in Where(P) : ~Unrenderable(input[i])})
        IsPrivate(s) == AccessIs(s, "private")
        IsProtected(s) == AccessIs(s, "protected")
        IsOpen(s) == ~IsPrivate(s) /\ ~IsProtected(s)
    IN /\ Count(output, Badge("private"))
            = IF IncludePrivate THEN kept(IsPrivate) ELSE 0
       /\ Count(output, Badge("protected")) = kept(IsProtected)
       /\ Count(output, "<a id='") - Count(output, "<span title='") = kept(IsOpen)

C2_Witness ==
  /\ Rendered /\ IncludePrivate
  /\ \E i, j \in 1..Len(input) :
       /\ AccessIs(input[i], "private") /\ ~Unrenderable(input[i])
       /\ AccessIs(input[j], "protected") /\ ~Unrenderable(input[j])
  /\ Contains(output, Badge("private"))
  /\ Contains(output, Badge("protected"))

\* the title heading and its blank line, which precede the sections
TitlePrefix == IF TitleSet THEN "# " \o options.title \o "\n\n" ELSE ""

\* the surviving sections, in input order
Survivors == SelectSeq(input, Survives)

\* the heading level and the text of the k-th surviving section
Piece(k) ==
  renderSection(Survivors[k],
                IF Has(Survivors[k], "kind") /\ Survivors[k].kind \in {"module", "class"}
                THEN [prefix |-> "## "] ELSE [prefix |-> "### "])

\* where the k-th surviving section starts in the document
RECURSIVE PieceStart(_)
PieceStart(k) ==
  IF k = 1 THEN Len(TitlePrefix) + 1
  ELSE PieceStart(k - 1) + Len(Piece(k - 1)) + Len("\n\n")

\* C3: the sections part of the document render returns (what follows the
\* title heading, if one is configured) is the renderSection text of each
\* surviving section, once, in input order; consecutive sections are set
\* apart by exactly "\n\n", and nothing precedes the first or follows the
\* last.
C3_JoinedInOrder ==
  Rendered =>
    LET n == Len(Survivors)
    IN /\ StartsAt(output, 1, TitlePrefix)
       /\ \A k \in 1..n : StartsAt(output, PieceStart(k), Piece(k))
       /\ \A k \in 2..n : StartsAt(output, PieceStart(k) - 2, "\n\n")
       /\ Len(output) = IF n = 0 THEN Len(TitlePrefix)
                        ELSE PieceStart(n) + Len(Piece(n)) - 1

C3_Witness ==
  /\ Rendered /\ ~TitleSet
  /\ Len(input) = 2 /\ Len(Survivors) = 2
  /\ input[1] # input[2]
  /\ output = Piece(1) \o "\n\n" \o Piece(2)

\* C4 as claimed: with no renderable section, render returns "" without a
\* title and exactly "# <title>", with nothing after it, with one.
C4_TitleOnlyNoTrailing ==
  (Rendered /\ Len(Survivors) = 0) =>
    output = IF TitleSet THEN "# " \o options.title ELSE ""

\* C4, amended: with no renderable section, render returns "" without a
\* title, and with one the title heading followed by the blank line that
\* separates it from the (here empty) sections: "# <title>\n\n".
C4_TitleThenBlankLine ==
  (Rendered /\ Len(Survivors) = 0) =>
    output = IF TitleSet THEN "# " \o options.title \o "\n\n" ELSE ""

C4_Witness ==
  /\ Rendered /\ TitleSet
  /\ Len(input) > 0 /\ Len(Survivors) = 0
  /\ output = "# API\n\n"

(***************************************************************************)
(* Properties of renderAtom and of its callers.                            *)
(***************************************************************************)
\* an atom that renderAtom takes for a callable signature
Callable(a) ==
  /\ ~IsArray(a) /\ ~IsString(a) /\ ~IsNull(a)
  /\ Has(a, "kind")
  /\ a.kind = "function" \/ (a.kind = "typedef" /\ Has(a, "params"))

\* an object that matches none of the shapes renderAtom knows
Shapeless(a) ==
  /\ ~IsArray(a) /\ ~IsString(a) /\ ~IsNull(a)
  /\ ~Callable(a)
  /\ ~(Has(a, "kind") /\ a.kind = "typedef" /\ Has(a, "properties"))
  /\ ~Has(a, "names")
  /\ ~(Has(a, "name") /\ a.name # "")
  /\ ~(Has(a, "type") /\ TruthyVal(a.type))

\* C5 as claimed: renderAtom, and so renderBody and render, raise no error
\* on any input; a callable atom without a params field renders as the
\* signature name() with zero parameters.
C5_NeverThrows ==
  /\ (pc = "done" /\ ReturnsText) => output # TypeError
  /\ (Done("renderAtom") /\ Callable(input) /\ ~Has(input, "params")
        /\ Has(input, "name"))
       => output = "<code>" \o input.name \o "()</code>"

\* C6 as claimed: renderAtom yields the empty string for a null atom and
\* for an atom of no recognized shape, so the text its callers build around
\* it holds nothing in its place: an empty <summary> in renderBody, an empty
\* type cell in renderParam.
C6_EmptyForNoShape ==
  /\ (Done("renderAtom") /\ (IsNull(input) \/ Shapeless(input))) => output = ""
  /\ (Done("renderBody") /\ Shapeless(input))
       => /\ Contains(output, "<summary></summary>")
          /\ ~Contains(output, "undefined")
  /\ (Done("renderParams") /\ output # TypeError)
       => \A i \in 1..Len(input) :
            (Has(input[i], "name") /\ Has(input[i], "type")
               /\ Shapeless(input[i].type) /\ ~Has(input[i], "description"))
              => Contains(output, "| " \o BACKTICK \o input[i].name \o BACKTICK
                                    \o " |  |  |")

\* the parameters of a callable whose name holds no '.'
NoDot(p) == \A k \in 1..Len(p.name) : CharAt(p.name, k) # "."

\* the text renderAtom gives for the parameters it lists inline
InlineParams(a) ==
  LET shallow == SelectSeq(a.params, NoDot)
  IN FlatJoin([i \in 1..Len(shallow) |-> renderAtom(shallow[i], Null)], ", ")

ShownReturnType(a) ==
  LET typeOf(r) == IF Has(r, "type") THEN renderAtom(r.type, HtmlOptions) ELSE ""
      types == IF Has(a, "returns")
               THEN FlatJoin([i \in 1..Len(a.returns) |-> typeOf(a.returns[i])], ", ")
               ELSE ""
  IN IF types = "" THEN "void" ELSE types

LineBreaks(s) == {k \in 1..Len(s) : CharAt(s, k) = "\n"}
LineStarts(s) == {1} \cup {k + 1 : k \in LineBreaks(s)}
LineFrom(s, k) ==
  LET e == CHOOSE e \in k..Len(s) + 1 :
             /\ e = Len(s) + 1 \/ CharAt(s, e) = "\n"
             /\ \A m \in k..e - 1 : CharAt(s, m) # "\n"
  IN SubSeq(s, k, e - 1)

\* the n-th line of a text
NthLine(s, n) ==
  LET k == CHOOSE k \in LineStarts(s) :
             Cardinality({b \in LineBreaks(s) : b < k}) = n - 1
  IN LineFrom(s, k)

\* C8: the signature in the <summary> of a section with parameters lists
\* exactly the parameters whose name holds no '.', in input order, joined by
\* ", "; a parameter whose name holds a '.' is not in it; and the table
\* below it has one row for every parameter, the deep ones too, in input
\* order.
C8_DeepParamsOnlyInTable ==
  (Done("renderBody") /\ Callable(input) /\ output # TypeError
     /\ Len(input.params) > 0) =>
    LET ps == input.params
        row(i) == "| " \o BACKTICK \o ps[i].name \o BACKTICK \o " | "
        summary == "<summary><code>" \o input.name \o "(" \o InlineParams(input)
                     \o ")</code></summary>"
        \* the lines before the rows: <details>, <summary>, a blank line,
        \* the header and the separator row
        rowLine(i) == NthLine(output, 5 + i)
    IN /\ NthLine(output, 2) = summary
       /\ \A i \in 1..Len(ps) :
            Contains(summary, ps[i].name) <=> NoDot(ps[i])
       /\ \A i \in 1..Len(ps) : StartsAt(rowLine(i), 1, row(i))
       /\ NthLine(output, 5 + Len(ps) + 1) = ""
       /\ Count(output, "\n| " \o BACKTICK) = Len(ps)

C8_Witness ==
  /\ Done("renderBody") /\ Callable(input) /\ output # TypeError
  /\ Len(input.params) = 2
  /\ input.params[1].name = "options" /\ input.params[2].name = "options.prefix"
  /\ Contains(output, "(<b title='object'>options</b>" \o OPTIONAL_SMALL \o ")</code>")
  /\ Contains(output, "\n| " \o BACKTICK \o "options.prefix" \o BACKTICK \o " | ")

(***************************************************************************)
(* Properties of renderString and of the parameter table.                  *)
(***************************************************************************)
\* C9 as claimed: without linking, renderString("Array.<string>") is
\* "string[]", and for every raw input, nested generics included, the
\* result holds no '<' or '>' and no generic-array notation that was left
\* uncollapsed (Array.< in its escaped form).
C9_CollapsedAndEscaped ==
  (Done("renderString") /\ ~(Has(options, "html") /\ options.html = TRUE)) =>
    /\ input = "Array.<string>" => output = "string[]"
    /\ ~Contains(output, "<") /\ ~Contains(output, ">")
    /\ ~Contains(output, "Array.&lt;")

\* C10 as claimed: the table of renderParams is the header, the separator
\* row and one row per parameter in input order, and every row has exactly
\* three cells (four '|'), whatever the type of the parameter.
C10_ThreeCellsPerRow ==
  (Done("renderParams") /\ output # TypeError /\ Len(input) > 0) =>
    /\ StartsAt(output, 1, "| Param | Type | Description |\n| --- | --- | --- |\n")
    /\ Cardinality(LineStarts(output)) = 2 + Len(input)
    /\ \A k \in LineStarts(output) : Count(LineFrom(output, k), "|") = 4

(***************************************************************************)
(* Properties of the parameter rows and bullet lines.                      *)
(***************************************************************************)
\* the number of dot separators of a parameter name
Depth(n) == Count(n, ".")

\* what follows the last dot of n (n itself when it has no dot)
LastSegment(n) ==
  LET dots == {i \in 1..Len(n) : CharAt(n, i) = "."}
      last == IF dots = {} THEN 0 ELSE CHOOSE i \in dots : \A j \in dots : j <= i
  IN SubSeq(n, last + 1, Len(n))

RECURSIVE Blanks(_)
Blanks(k) == IF k = 0 THEN "" ELSE " " \o Blanks(k - 1)

\* text is lead alone, or lead followed by a space
LedBy(text, lead) == text = lead \/ StartsAt(text, 1, lead \o " ")

\* C11: a parameter whose name has d dots is shown by the table mode with
\* its full dotted name at the start of the row, without indentation, and by
\* the list mode with its last path segment only, on a bullet line indented
\* by 2*d blanks
C11_DottedNameByMode ==
  /\ (Done("renderParam") /\ Has(input, "name") /\ output # TypeError)
       => LedBy(output, "| " \o BACKTICK \o input.name \o BACKTICK \o " |")
  /\ (Done("renderParamList") /\ Has(input, "name") /\ output # TypeError)
       => LedBy(output, Blanks(2 * Depth(input.name)) \o "- " \o BACKTICK
                          \o LastSegment(input.name) \o BACKTICK)

C11_Witness ==
  /\ Done("renderParamList")
  /\ input = [name |-> "options.prefix", type |-> Str("string"),
              optional |-> TRUE, description |-> "The prefix"]
  /\ output = "  - " \o BACKTICK \o "prefix" \o BACKTICK
                \o " *(?string)* &mdash; The prefix"

(***************************************************************************)
(* Properties of the return fragments.                                     *)
(***************************************************************************)
\* s with a full stop appended unless its last character is one
Sentence(s) == IF s # "" /\ CharAt(s, Len(s)) = "." THEN s ELSE s \o "."

Described(r) == Has(r, "description") /\ r.description # ""
TypeOnly(r) == Has(r, "type") /\ ~Described(r)

\* C12: renderReturns gives "Returns " and the sentence of the description
\* for a descriptor with a description; dotify appends a full stop if and
\* only if the text does not end in one, and dotify(dotify(s)) = dotify(s);
\* dotify('Hello') = 'Hello.' and dotify('Hi.') = 'Hi.'
C12_ReturnsSentence ==
  /\ Done("dotify")
       => /\ output = Sentence(input)
          /\ dotify(output) = output
          /\ (input = "Hello" => output = "Hello.")
          /\ (input = "Hi." => output = "Hi.")
  /\ Done("renderReturns")
       => /\ Len(output) = Len(input)
          /\ \A i \in 1..Len(input) :
               Described(input[i])
                 => output[i] = "Returns " \o Sentence(input[i].description)

C12_Witness ==
  /\ Done("renderReturns")
  /\ input = <<[description |-> "a Markdown block"], [description |-> "The size."]>>
  /\ output = <<"Returns a Markdown block.", "Returns The size.">>

\* C13 as claimed: a descriptor with a type and no description gives the
\* fragment "Returns a <type>.", never an absent or empty one.
C13_TypeOnlyFallback ==
  Done("renderReturns")
    => \A i \in 1..Len(input) :
         TypeOnly(input[i])
           => output[i] = "Returns a " \o renderAtom(input[i].type, Null) \o "."

\* C13, amended: for a descriptor with a type and no description the list
\* mode's renderReturns gives "Returns a <type>." with the type as its
\* renderAtom renders it, and the table mode's renderReturns gives no
\* fragment at all
C13_TypeOnlyByMode ==
  /\ Done("renderReturnsList")
       => \A i \in 1..Len(input) :
            TypeOnly(input[i])
              => output[i] = "Returns a " \o renderAtomList(input[i].type) \o "."
  /\ Done("renderReturns")
       => \A i \in 1..Len(input) : TypeOnly(input[i]) => output[i] = undefined

C13_Witness ==
  /\ Done("renderReturns")
  /\ input = <<[type |-> TypeNumber]>>
  /\ output = <<undefined>>

(***************************************************************************)
(* Properties of renderBody.                                               *)
(***************************************************************************)
\* renderBody returned a text (it did not throw)
Body == Done("renderBody") /\ output # TypeError

\* obj without the field f
Without(obj, f) == [g \in DOMAIN obj \ {f} |-> obj[g]]

\* the text of the blocks renderBody makes before the returns step: the
\* signature block and the description
TextBefore(s) == Join(DetailsBlocks(s) \o DescriptionBlocks(s), "\n\n")

\* the text of one return fragment; nothing for a return without description
Fragment(r) == IF Described(r) THEN "Returns " \o Sentence(r.description) ELSE ""

Examples(s) == IF Has(s, "examples") THEN s.examples ELSE <<>>

\* the text of the example blocks
Fenced(s) ==
  FlatJoin([i \in 1..Len(Examples(s)) |->
              FENCE \o "js\n" \o Examples(s)[i] \o "\n" \o FENCE], "\n\n")

\* text followed by the example blocks of s, if any
ThenExamples(text, s) ==
  IF Examples(s) = <<>> THEN text ELSE text \o "\n\n" \o Fenced(s)

\* a returns sequence of exactly one entry, whose description is empty or
\* does not end in a full stop
OneSimpleReturn(s) ==
  /\ Has(s, "returns") /\ Len(s.returns) = 1
  /\ (~Described(s.returns[1]) \/ ~EndsWith(s.returns[1].description, "."))

\* C14: for a section with exactly one return, a simple one: when blocks
\* precede it, the body is those blocks with a blank and the fragment
\* appended to the last one, and it has as many block separators as without
\* the return; when no block precedes it, the fragment is a block of its own
C14_SimpleReturnMerged ==
  (Body /\ OneSimpleReturn(input))
    => LET before == TextBefore(input)
           frag == Fragment(input.returns[1])
       IN IF before # ""
          THEN /\ output = ThenExamples(before \o " " \o frag, input)
               /\ Count(output, "\n\n")
                    = Count(ThenExamples(before, input), "\n\n")
          ELSE output = ThenExamples(frag, input)

C14_Witness ==
  /\ Body /\ OneSimpleReturn(input)
  /\ input.name = "Tree" /\ ~Has(input, "params") /\ ~Has(input, "examples")
  /\ output = "Counts the keys. Returns a Markdown block."

\* the first position from i on at which pat occurs in text, 0 if none
NextAt(text, i, pat) ==
  LET at == {j \in i..Len(text) : StartsAt(text, j, pat)}
  IN IF at = {} THEN 0 ELSE CHOOSE j \in at : \A k \in at : j <= k

\* the pieces occur in text from position i on, one after the other
RECURSIVE InOrderFrom(_, _, _)
InOrderFrom(text, i, pieces) ==
  IF pieces = <<>> THEN TRUE
  ELSE LET j == NextAt(text, i, Head(pieces))
       IN j # 0 /\ InOrderFrom(text, j + Len(Head(pieces)), Tail(pieces))

\* the return fragments of s that hold a text, in input order
Fragments(s) ==
  IF Has(s, "returns")
  THEN LET frags == [i \in 1..Len(s.returns) |-> Fragment(s.returns[i])]
       IN SelectSeq(frags, LAMBDA f : f # "")
  ELSE <<>>

FencedBlocks(s) ==
  [i \in 1..Len(Examples(s)) |-> FENCE \o "js\n" \o Examples(s)[i] \o "\n" \o FENCE]

\* the pieces of a body in the order they are to be in
BodyPieces(s, text) ==
  (IF Contains(text, "<details>") THEN <<"<details>", "</details>">> ELSE <<>>)
    \o (IF Described(s) THEN <<s.description>> ELSE <<>>)
    \o Fragments(s) \o FencedBlocks(s)

\* C15: the body holds, in this order, the signature block with the
\* parameter table, the description, the return fragments and one fenced js
\* block per example in input order; the signature block, when there is
\* one, opens the body
C15_BlocksInOrder ==
  Body
    => /\ InOrderFrom(output, 1, BodyPieces(input, output))
       /\ Count(output, "<details>") <= 1
       /\ Contains(output, "<details>") => StartsAt(output, 1, "<details>")

C15_Witness ==
  /\ Body
  /\ Len(BodyPieces(input, output)) = 7
  /\ Has(input, "params") /\ Len(input.params) = 1

\* C16 as claimed: the body is made of non-empty blocks separated by one
\* blank line: it neither starts nor ends with a blank line, no block ends in
\* a blank left by a step that produced no text, and no two separators
\* follow each other.
C16_NoStrayBlankLines ==
  Body
    => /\ ~StartsAt(output, 1, "\n\n")
       /\ ~EndsWith(output, "\n\n")
       /\ ~EndsWith(output, " ")
       /\ ~Contains(output, " \n\n")
       /\ ~Contains(output, "\n\n\n\n")

NonEmpty(s, f) == Has(s, f) /\ s[f] # <<>>

\* the condition under which a signature block is to be emitted
WantsSignature(s) ==
  \/ NonEmpty(s, "params")
  \/ NonEmpty(s, "properties")
  \/ ~(Has(s, "kind") /\ s.kind \in {"class", "module"})

TableHeader == "| Param | Type | Description |"

\* C17 as claimed: renderBody emits a signature block if and only if the
\* section has a non-empty params or properties sequence or a kind other
\* than class and module; a section without params gets no parameter table
\* header; a module without params and properties renders its description
\* alone.
C17_SignatureBlockIff ==
  Done("renderBody")
    => /\ output # TypeError
       /\ Contains(output, "<details>") <=> WantsSignature(input)
       /\ ~NonEmpty(input, "params") => ~Contains(output, TableHeader)
       /\ (~WantsSignature(input) /\ ~Has(input, "returns") /\ Examples(input) = <<>>)
            => output = (IF Described(input) THEN input.description ELSE "")

(***************************************************************************)
(* Properties of the section heading.                                      *)
(***************************************************************************)
\* the heading line of a section, part by part
Heading(s) ==
  LET level == IF Has(s, "kind") /\ s.kind \in {"module", "class"}
               THEN "## " ELSE "### "
      suffix == IF Has(s, "kind") /\ s.kind = "function" THEN "()" ELSE ""
      badge == IF Has(s, "access") /\ s.access # "public"
               THEN Badge(s.access) \o PRIVATE \o "</span>" ELSE ""
  IN level \o Anchor(s.name) \o s.name \o suffix \o badge

\* C18: the text of every section render emits starts with its heading
\* line: the level marker of its kind, the anchor, the name, "()" if and
\* only if the kind is function, the access badge if and only if access is
\* present and not public; one blank line and the body follow
C18_HeadingLine ==
  Rendered
    => \A k \in 1..Len(Survivors) :
         StartsAt(output, PieceStart(k),
                  Heading(Survivors[k]) \o "\n\n" \o renderBody(Survivors[k]))

C18_Witness ==
  /\ Rendered /\ Len(input) = 1
  /\ input[1] = [name |-> "Tree", kind |-> "class", description |-> "A tree.",
                 access |-> "protected"]
  /\ output = "## <a id='Tree'></a>Tree<span title='protected'>" \o PRIVATE
                \o "</span>\n\nA tree."

SequenceFields == {"params", "properties", "returns", "examples"}

\* C19 as claimed: for each of params, properties, returns and examples,
\* the body of a section in which the field is absent is the body of the
\* same section with the field set to the empty sequence.
C19_AbsentIsEmpty ==
  Done("renderBody")
    => \A f \in SequenceFields :
         /\ ~Has(input, f) => output = renderBody(With(input, f, <<>>))
         /\ (Has(input, f) /\ input[f] = <<>>)
              => output = renderBody(Without(input, f))

(***************************************************************************)
(* Properties of render as a function of its arguments.                    *)
(***************************************************************************)
\* the options of a call on one section of the list: the same filter, no title
AloneOptions == IF IncludePrivate THEN [includePrivate |-> TRUE] ELSE EmptyObj

\* every call returned what the first call returned, and the text of each
\* section in it is what render returns for that section alone
SameTextEveryCall ==
  Done("render")
    => /\ \A i \in 1..Len(history) : history[i] = history[1]
       /\ Rendered
            => \A k \in 1..Len(Survivors) :
                 StartsAt(output, PieceStart(k), render(<<Survivors[k]>>, AloneOptions))

\* a call of render leaves the section list and the options as they were
ArgumentsUntouched == CallRender => (input' = input /\ options' = options)

NotOneSimpleReturn(s) ==
  /\ Has(s, "returns") /\ s.returns # <<>>
  /\ \/ Len(s.returns) > 1
     \/ (Described(s.returns[1]) /\ EndsWith(s.returns[1].description, "."))

\* C21 as claimed: when returns has more than one entry, or its first
\* description ends in a full stop, nothing is merged into the preceding
\* block: every return fragment is a block of its own, in input order, set
\* apart from the block before it and from the next by a blank line.
C21_SeveralReturnsAsBlocks ==
  (Body /\ NotOneSimpleReturn(input))
    => LET before == TextBefore(input)
           blocks == (IF before = "" THEN <<>> ELSE <<before>>)
                       \o Fragments(input) \o FencedBlocks(input)
       IN output = FlatJoin(blocks, "\n\n")

(***************************************************************************)
(* Properties of the dispatch of renderAtom.                               *)
(***************************************************************************)
\* a.type is there and is neither null nor the empty string
TypeGiven(a) == Has(a, "type") /\ TruthyVal(a.type)

\* the text of each rule for an object atom a
CallableRule(a) ==
  IF ~Has(a, "params") \/ \E i \in 1..Len(a.params) : ~Has(a.params[i], "name")
  THEN TypeError
  ELSE Concat(<<"<code>", Get(a, "name"), "(", InlineParams(a), ")</code>">>)

PropertiesRule(a, opts) ==
  Concat(<<"<code>{ ", renderAtom(Arr(a.properties), opts), " }</code>">>)

UnionRule(a, opts) ==
  Join([i \in 1..Len(a.names) |-> renderString(a.names[i], opts)], " | ")

ParameterRule(a, opts) ==
  Concat(<<IF Has(a, "variable") /\ a.variable THEN "..." ELSE "",
           "<b title='", renderAtom(a.type, opts), "'>", a.name, "</b>",
           IF Has(a, "optional") /\ a.optional THEN OPTIONAL_SMALL ELSE "">>)

\* the specified dispatch of an object atom: the first rule that matches,
\* with type only tested before name only
FirstMatch(a, opts) ==
  IF Callable(a) THEN CallableRule(a)
  ELSE IF Has(a, "kind") /\ a.kind = "typedef" /\ Has(a, "properties")
  THEN PropertiesRule(a, opts)
  ELSE IF Has(a, "names") THEN UnionRule(a, opts)
  ELSE IF Has(a, "name") /\ a.name # "" /\ TypeGiven(a)
  THEN ParameterRule(a, opts)
  ELSE IF TypeGiven(a) THEN renderAtom(a.type, opts)
  ELSE IF Has(a, "name") /\ a.name # "" THEN a.name
  ELSE undefined

\* how many of the rules an object atom satisfies
RulesMatched(a) ==
  Cardinality({r \in 1..6 :
     \/ r = 1 /\ Callable(a)
     \/ r = 2 /\ Has(a, "kind") /\ a.kind = "typedef" /\ Has(a, "properties")
     \/ r = 3 /\ Has(a, "names")
     \/ r = 4 /\ Has(a, "name") /\ a.name # "" /\ TypeGiven(a)
     \/ r = 5 /\ TypeGiven(a)
     \/ r = 6 /\ Has(a, "name") /\ a.name # ""})

\* C22: renderAtom gives an array the join of its items, a string its
\* renderString, null nothing, and an object atom the text of the first rule
\* it satisfies in the order callable, typedef with properties, union,
\* parameter, type only, name only; testing name before type, as the code
\* does, gives what testing type before name gives
C22_FirstMatchWins ==
  Done("renderAtom")
    => IF IsArray(input)
       THEN output = Join([i \in 1..Len(input.array) |->
                             renderAtom(input.array[i], options)], ", ")
       ELSE IF IsString(input) THEN output = renderString(input.string, options)
       ELSE IF IsNull(input) THEN output = undefined
       ELSE output = FirstMatch(input, options)

C22_Witness ==
  /\ Done("renderAtom")
  /\ input = [names |-> <<"Tree">>, kind |-> "function", name |-> "f",
              params |-> <<>>]
  /\ RulesMatched(input) = 3
  /\ output = "<code>f()</code>"

(***************************************************************************)
(* Properties of the cross-links.                                          *)
(***************************************************************************)
\* n is one capitalized run: an upper-case letter, then letters and digits
IsTypeName(n) ==
  /\ n # "" /\ CharAt(n, 1) \in Upper
  /\ \A i \in 1..Len(n) : CharAt(n, i) \in Upper \cup Lower \cup Digit

\* the lower-case, alphanumeric-only form of a type name
TargetOf(n) == KeepLowerAlnum(toLowerCase(n))

\* C23 as claimed: for every section render emits whose name N is a type
\* name, the link renderString makes of N with html on points to the
\* lower-case alphanumeric form of N, and the heading of the section bears
\* an anchor of that very identifier, so the link resolves.
C23_LinksResolve ==
  Rendered
    => \A k \in 1..Len(Survivors) :
         LET N == Survivors[k].name
         IN IsTypeName(N)
              => /\ renderString(N, HtmlOptions)
                      = "<a href='#" \o TargetOf(N) \o "'>" \o N \o "</a>"
                 /\ Contains(output, "<a id='" \o TargetOf(N) \o "'></a>")

====
